---- MODULE Spec2Model ----
(***************************************************************************)
(* Model of bot.py: a Flask endpoint POST /webhook that, for qualifying    *)
(* GitHub pull-request events, fetches the diff, asks OpenAI for a         *)
(* summary, formats a message and schedules its delivery on the Discord    *)
(* client's event loop.                                                    *)
(*                                                                         *)
(* Texts (diff, summary, message) are sequences of tokens; a token is a    *)
(* character (" ", "x") or a fixed literal of the source kept whole.       *)
(***************************************************************************)
EXTENDS Naturals, Sequences, FiniteSets, TLC

\* ------------------------------------------------------------------ bounds
\* Number of webhook requests (each served by its own Flask handler thread).
NumReqs == 2
\* Longest diff text / completion text an external service returns.
MaxLen == 1

Reqs == 1..NumReqs

\* ------------------------------------------------------------- text values
Chars == {" ", "x"}
Whitespace == {" ", "\n", "\t"}

RECURSIVE TextsUpTo(_)
TextsUpTo(n) ==
    IF n = 0 THEN {<<>>}
    ELSE LET shorter == TextsUpTo(n - 1)
         IN shorter \cup {Append(t, c) : t \in {s \in shorter : Len(s) = n - 1}, c \in Chars}

Texts == TextsUpTo(MaxLen)

\* str.strip(): drop the leading and the trailing whitespace
RECURSIVE LStrip(_)
LStrip(t) == IF t # <<>> /\ Head(t) \in Whitespace THEN LStrip(Tail(t)) ELSE t

RECURSIVE RStrip(_)
RStrip(t) ==
    IF t # <<>> /\ t[Len(t)] \in Whitespace THEN RStrip(SubSeq(t, 1, Len(t) - 1)) ELSE t

Strip(t) == RStrip(LStrip(t))

NoContentSentinel == <<"Não há conteúdo para análise ou o diff está vazio.">>
FailureSentinel == <<"Falha ao chamar a OpenAI.">>
NoDiffUrlFallback == <<"Pull Request não possui 'diff_url'.">>

\* --------------------------------------------------------------- payloads
TriggerActions == {"opened", "edited", "synchronize", "reopened"}
\* "none" stands for a payload without an "action" key (payload.get gives None)
Actions == TriggerActions \cup {"closed", "none"}
\* "base" and "head" stand for pr["base"]["ref"] and pr["head"]["ref"]
RequiredFields == {"title", "html_url", "base", "head"}
Fields == RequiredFields \cup {"diff_url"}

\* The pull_request value: not an object at all, an object with every field,
\* or an object with one field missing.
PrShapes ==
    {[isObject |-> FALSE, has |-> {}]}
    \cup {[isObject |-> TRUE, has |-> Fields \ m] : m \in {{}} \cup {{f} : f \in Fields}}

Payloads ==
    {[hasPR |-> FALSE, action |-> a, pr |-> [isObject |-> FALSE, has |-> {}]] : a \in Actions}
    \cup {[hasPR |-> TRUE, action |-> a, pr |-> s] : a \in Actions, s \in PrShapes}

\* The field values of the pull request that request r is about.
PrValue(r, f) == f \o "#" \o ToString(r)

\* ------------------------------------------------------------- state
VARIABLES
    conn,        \* chat connection: "Disconnected", "Connecting", "Ready"
    exited,      \* client.run returned: the process is gone
    channelId,   \* DISCORD_CHANNEL_ID: "valid", "unknown" (numeric, no such channel), "nonnumeric"
    pc,          \* per request: position of its handler
    payload,     \* per request: request.json
    arrivedReady,\* per request: whether the connection was Ready when the request arrived
    fetchStatus, \* per request: "none", "200", "non200", "raised" (connection error)
    diff,        \* per request: diff_text
    apiResult,   \* per request: "none", "ok", "raised", "malformed"
    summary,     \* per request: summary_result
    message,     \* per request: discord_message
    status,      \* per request: HTTP status of the response, 0 before it
    httpCalls,   \* per request: number of requests.get calls
    openaiCalls, \* per request: number of ChatCompletion.create calls
    steps,       \* per request: the downstream steps in the order they ran
    loopTasks,   \* tasks created on client.loop and not yet run
    taskRuns,    \* per request: how many times its send_discord_message ran
    taskResult,  \* per request: "none", "sent", "notfound", "valueerror", "senderror"
    runConn,     \* per request: conn when its send_discord_message ran
    sent         \* per request: the (channel, message) pairs channel.send delivered

reqVars == <<pc, payload, arrivedReady, fetchStatus, diff, apiResult, summary, message,
             status, httpCalls, openaiCalls, steps>>
taskVars == <<loopTasks, taskRuns, taskResult, runConn, sent>>
vars == <<conn, exited, channelId, reqVars, taskVars>>

ChannelIds == {"valid", "unknown", "nonnumeric"}

\* Every request in the same state v
All(v) == [r \in Reqs |-> v]

NoPayload == [hasPR |-> FALSE, action |-> "none", pr |-> [isObject |-> FALSE, has |-> {}]]

Init ==
    /\ conn = "Disconnected"
    /\ exited = FALSE
    /\ channelId \in ChannelIds
    /\ pc = All("idle")
    /\ payload = All(NoPayload)
    /\ arrivedReady = All(FALSE)
    /\ fetchStatus = All("none")
    /\ diff = All(<<>>)
    /\ apiResult = All("none")
    /\ summary = All(<<>>)
    /\ message = All(<<>>)
    /\ status = All(0)
    /\ httpCalls = All(0)
    /\ openaiCalls = All(0)
    /\ steps = All(<<>>)
    /\ loopTasks = <<>>
    /\ taskRuns = All(0)
    /\ taskResult = All("none")
    /\ runConn = All("Disconnected")
    /\ sent = All(<<>>)

\* ------------------------------------------------- chat connection (run)
\* client.run(DISCORD_BOT_TOKEN): the event loop starts and the client logs in
Connect ==
    /\ ~exited
    /\ conn = "Disconnected"
    /\ conn' = "Connecting"
    /\ UNCHANGED <<exited, channelId, reqVars, taskVars>>

\* on_ready: the channel cache is filled
OnReady ==
    /\ ~exited
    /\ conn = "Connecting"
    /\ conn' = "Ready"
    /\ UNCHANGED <<exited, channelId, reqVars, taskVars>>

\* client.run returns, run() returns and the interpreter exits, taking the
\* daemon Flask thread, the handlers in flight and the pending tasks with it:
\* nothing of the process is left.
Shutdown ==
    /\ ~exited
    /\ conn \in {"Connecting", "Ready"}
    /\ conn' = "Disconnected"
    /\ exited' = TRUE
    /\ pc' = All("idle")
    /\ payload' = All(NoPayload)
    /\ arrivedReady' = All(FALSE)
    /\ fetchStatus' = All("none")
    /\ diff' = All(<<>>)
    /\ apiResult' = All("none")
    /\ summary' = All(<<>>)
    /\ message' = All(<<>>)
    /\ status' = All(0)
    /\ httpCalls' = All(0)
    /\ openaiCalls' = All(0)
    /\ steps' = All(<<>>)
    /\ loopTasks' = <<>>
    /\ taskRuns' = All(0)
    /\ taskResult' = All("none")
    /\ runConn' = All("Disconnected")
    /\ sent' = All(<<>>)
    /\ UNCHANGED channelId

\* ------------------------------------------------------- pure functions
\* Mutant: the status test dropped, the body returned whatever the status
GetDiffFromGithubAnyStatus(response) == response.text

\* get_diff_from_github, after requests.get returned `response`
GetDiffFromGithub(response) ==
    IF response.status # 200 THEN <<>> ELSE response.text

\* What openai.ChatCompletion.create can do: raise, answer without
\* choices[0].message.content, or answer with a content text.
ApiOutcomes ==
    {[kind |-> "raised", content |-> <<>>], [kind |-> "malformed", content |-> <<>>]}
    \cup {[kind |-> "ok", content |-> t] : t \in Texts}

\* Mutant: `if not diff_text` without .strip()
SummarizeNoStrip(diff_text, api) ==
    IF diff_text = <<>>
    THEN [summary |-> NoContentSentinel, calls |-> 0, result |-> "none", raises |-> FALSE]
    ELSE IF api.kind = "ok"
         THEN [summary |-> Strip(api.content), calls |-> 1, result |-> "ok", raises |-> FALSE]
         ELSE [summary |-> FailureSentinel, calls |-> 1, result |-> api.kind, raises |-> FALSE]

\* Mutant: the except clause catches the API's own errors only, so the
\* KeyError of a response without choices[0].message.content escapes
SummarizeUncaught(diff_text, api) ==
    IF Strip(diff_text) = <<>>
    THEN [summary |-> NoContentSentinel, calls |-> 0, result |-> "none", raises |-> FALSE]
    ELSE IF api.kind = "ok"
         THEN [summary |-> Strip(api.content), calls |-> 1, result |-> "ok", raises |-> FALSE]
         ELSE [summary |-> FailureSentinel, calls |-> 1, result |-> api.kind,
               raises |-> (api.kind = "malformed")]

\* summarize_diff_with_openai: the summary, the number of outbound calls made,
\* what the call did, and whether an exception leaves the function
SummarizeDiffWithOpenai(diff_text, api) ==
    IF Strip(diff_text) = <<>>
    THEN [summary |-> NoContentSentinel, calls |-> 0, result |-> "none", raises |-> FALSE]
    ELSE IF api.kind = "ok"
         THEN [summary |-> Strip(api.content), calls |-> 1, result |-> "ok", raises |-> FALSE]
         ELSE [summary |-> FailureSentinel, calls |-> 1, result |-> api.kind, raises |-> FALSE]

\* Mutant: base and head branch swapped in the template
FormatMessageSwapped(pr_title, pr_url, base_branch, head_branch, summary_result) ==
    <<"**Pull Request**: ", pr_title, "\n",
      "**Link**: ", pr_url, "\n",
      "**Branches**: ", head_branch, " <- ", base_branch, "\n\n",
      "**Resumo das Mudanças**:\n">> \o summary_result

\* the f-string of github_webhook
FormatMessage(pr_title, pr_url, base_branch, head_branch, summary_result) ==
    <<"**Pull Request**: ", pr_title, "\n",
      "**Link**: ", pr_url, "\n",
      "**Branches**: ", base_branch, " <- ", head_branch, "\n\n",
      "**Resumo das Mudanças**:\n">> \o summary_result

\* Mutant: the channel resolves whatever the connection state
SendDiscordMessageAnyState(channel_id, connState, sendOk) ==
    IF channel_id = "nonnumeric" THEN "valueerror"
    ELSE IF channel_id = "valid"
         THEN (IF sendOk THEN "sent" ELSE "senderror")
         ELSE "notfound"

\* send_discord_message: int(channel_id), client.get_channel, channel.send.
\* The cache get_channel reads holds the channel only once the client is Ready.
SendDiscordMessage(channel_id, connState, sendOk) ==
    IF channel_id = "nonnumeric" THEN "valueerror"
    ELSE IF channel_id = "valid" /\ connState = "Ready"
         THEN (IF sendOk THEN "sent" ELSE "senderror")
         ELSE "notfound"

\* Mutant: the action filter dropped
QualifiesAnyAction(p) == p.hasPR

\* the `if`s of github_webhook
Qualifies(p) == p.hasPR /\ p.action \in TriggerActions

\* pr["title"], pr["html_url"], pr["base"]["ref"], pr["head"]["ref"] raise
\* (KeyError, TypeError) when pr is no object or lacks the key
ExtractRaises(p) == ~p.pr.isObject \/ ~(RequiredFields \subseteq p.pr.has)

\* Mutant: a qualifying event is acknowledged before its pipeline runs
HandlerStartAckFirst(p) ==
    IF ~Qualifies(p) THEN [pc |-> "done", status |-> 200, summary |-> <<>>]
    ELSE IF ExtractRaises(p) THEN [pc |-> "done", status |-> 500, summary |-> <<>>]
    ELSE IF "diff_url" \notin p.pr.has
         THEN [pc |-> "format", status |-> 200, summary |-> NoDiffUrlFallback]
         ELSE [pc |-> "fetch", status |-> 200, summary |-> <<>>]

\* github_webhook up to its first outbound call, as a decision table: where
\* the handler goes next, the response already given (0: none yet) and
\* process_pull_request's result when it returns without any call.
\*   no "pull_request" key or action outside the list: return ..., 200
\*   pr["title"] etc. raise: Flask answers 500
\*   no diff_url: the fallback string, on to the f-string
HandlerStart(p) ==
    IF ~Qualifies(p) THEN [pc |-> "done", status |-> 200, summary |-> <<>>]
    ELSE IF ExtractRaises(p) THEN [pc |-> "done", status |-> 500, summary |-> <<>>]
    ELSE IF "diff_url" \notin p.pr.has
         THEN [pc |-> "format", status |-> 0, summary |-> NoDiffUrlFallback]
         ELSE [pc |-> "fetch", status |-> 0, summary |-> <<>>]

\* ------------------------------------------------------ webhook handler
\* github_webhook up to its first outbound call: request.json, the filter,
\* the field extraction and process_pull_request's diff_url test. A payload
\* that does not qualify is answered at once (return jsonify(...), 200); an
\* exception leaves the handler and Flask answers 500.
GithubWebhook(r) ==
    /\ ~exited
    /\ pc[r] = "idle"
    /\ \A q \in Reqs : q < r => pc[q] # "idle"
    /\ \E p \in Payloads :
        /\ payload' = [payload EXCEPT ![r] = p]
        /\ arrivedReady' = [arrivedReady EXCEPT ![r] = (conn = "Ready")]
        /\ pc' = [pc EXCEPT ![r] = HandlerStart(p).pc]
        /\ status' = [status EXCEPT ![r] = HandlerStart(p).status]
        /\ summary' = [summary EXCEPT ![r] = HandlerStart(p).summary]
    /\ UNCHANGED <<conn, exited, channelId, fetchStatus, diff, apiResult, message,
                   httpCalls, openaiCalls, steps, taskVars>>

Responses == {[status |-> s, text |-> t] : s \in {200, 404}, t \in Texts}

\* get_diff_from_github: requests.get answers
FetchAnswers(r) ==
    /\ ~exited
    /\ pc[r] = "fetch"
    /\ \E response \in Responses :
        /\ fetchStatus' = [fetchStatus EXCEPT ![r] =
                              IF response.status = 200 THEN "200" ELSE "non200"]
        /\ diff' = [diff EXCEPT ![r] = GetDiffFromGithub(response)]
    /\ httpCalls' = [httpCalls EXCEPT ![r] = @ + 1]
    /\ steps' = [steps EXCEPT ![r] = Append(@, "fetch")]
    /\ pc' = [pc EXCEPT ![r] = "summarize"]
    /\ UNCHANGED <<conn, exited, channelId, payload, arrivedReady, apiResult, summary,
                   message, status, openaiCalls, taskVars>>

\* get_diff_from_github: requests.get raises (connection error); nothing
\* catches it before Flask, which answers 500
FetchRaises(r) ==
    /\ ~exited
    /\ pc[r] = "fetch"
    /\ fetchStatus' = [fetchStatus EXCEPT ![r] = "raised"]
    /\ httpCalls' = [httpCalls EXCEPT ![r] = @ + 1]
    /\ steps' = [steps EXCEPT ![r] = Append(@, "fetch")]
    /\ status' = [status EXCEPT ![r] = 500]
    /\ pc' = [pc EXCEPT ![r] = "done"]
    /\ UNCHANGED <<conn, exited, channelId, payload, arrivedReady, diff, apiResult,
                   summary, message, openaiCalls, taskVars>>

\* summarize_diff_with_openai(diff_text)
Summarize(r) ==
    /\ ~exited
    /\ pc[r] = "summarize"
    /\ \E api \in ApiOutcomes :
        LET out == SummarizeDiffWithOpenai(diff[r], api) IN
        /\ openaiCalls' = [openaiCalls EXCEPT ![r] = @ + out.calls]
        /\ apiResult' = [apiResult EXCEPT ![r] = out.result]
        /\ steps' = [steps EXCEPT ![r] = Append(@, "summarize")]
        /\ IF out.raises
           THEN /\ status' = [status EXCEPT ![r] = 500]
                /\ pc' = [pc EXCEPT ![r] = "done"]
                /\ UNCHANGED summary
           ELSE /\ summary' = [summary EXCEPT ![r] = out.summary]
                /\ pc' = [pc EXCEPT ![r] = "format"]
                /\ UNCHANGED status
    /\ UNCHANGED <<conn, exited, channelId, payload, arrivedReady, fetchStatus, diff,
                   message, httpCalls, taskVars>>

\* the discord_message f-string
Format(r) ==
    /\ ~exited
    /\ pc[r] = "format"
    /\ message' = [message EXCEPT ![r] =
                      FormatMessage(PrValue(r, "title"), PrValue(r, "html_url"),
                                    PrValue(r, "base"), PrValue(r, "head"), summary[r])]
    /\ steps' = [steps EXCEPT ![r] = Append(@, "format")]
    /\ pc' = [pc EXCEPT ![r] = "schedule"]
    /\ UNCHANGED <<conn, exited, channelId, payload, arrivedReady, fetchStatus, diff,
                   apiResult, summary, status, httpCalls, openaiCalls, taskVars>>

\* Mutant: the message kept in one module-level variable, last writer wins
CreateTaskSharedMessage(r) ==
    <<[req |-> r, channel_id |-> channelId,
       message |-> IF \E q \in Reqs : q > r /\ message[q] # <<>>
                   THEN message[CHOOSE q \in Reqs : q > r /\ message[q] # <<>>]
                   ELSE message[r]]>>

\* the tasks one client.loop.create_task(send_discord_message(...)) call adds
CreateTask(r) == <<[req |-> r, channel_id |-> channelId, message |-> message[r]]>>

\* client.loop.create_task(send_discord_message(DISCORD_CHANNEL_ID,
\* discord_message)) and, with nothing in between, return jsonify(...), 200
Publish(r) ==
    /\ ~exited
    /\ pc[r] = "schedule"
    /\ loopTasks' = loopTasks \o CreateTask(r)
    /\ steps' = [steps EXCEPT ![r] = Append(@, "publish")]
    /\ status' = [status EXCEPT ![r] = 200]
    /\ pc' = [pc EXCEPT ![r] = "done"]
    /\ UNCHANGED <<conn, exited, channelId, payload, arrivedReady, fetchStatus, diff,
                   apiResult, summary, message, httpCalls, openaiCalls,
                   taskRuns, taskResult, runConn, sent>>

\* ------------------------------------------------------ chat event loop
\* The running loop takes the oldest task and runs send_discord_message.
RunTask ==
    /\ ~exited
    /\ conn \in {"Connecting", "Ready"}
    /\ loopTasks # <<>>
    /\ LET t == Head(loopTasks) IN
       \E sendOk \in BOOLEAN :
        LET res == SendDiscordMessage(t.channel_id, conn, sendOk) IN
        /\ taskResult' = [taskResult EXCEPT ![t.req] = res]
        /\ taskRuns' = [taskRuns EXCEPT ![t.req] = @ + 1]
        /\ runConn' = [runConn EXCEPT ![t.req] = conn]
        /\ sent' = [sent EXCEPT ![t.req] =
                       IF res = "sent"
                       THEN Append(@, [channel_id |-> t.channel_id, message |-> t.message])
                       ELSE @]
    /\ loopTasks' = Tail(loopTasks)
    /\ UNCHANGED <<conn, exited, channelId, reqVars>>

Next ==
    \/ Connect
    \/ OnReady
    \/ Shutdown
    \/ RunTask
    \/ \E r \in Reqs : GithubWebhook(r)
    \/ \E r \in Reqs : FetchAnswers(r)
    \/ \E r \in Reqs : FetchRaises(r)
    \/ \E r \in Reqs : Summarize(r)
    \/ \E r \in Reqs : Format(r)
    \/ \E r \in Reqs : Publish(r)

Spec == Init /\ [][Next]_vars

\* The asyncio loop runs every ready task: the loop step is weakly fair.
FairSpec == Spec /\ WF_vars(RunTask)

\* ------------------------------------------------------------ properties
\* The trigger set, the template and the sentinels as the specification
\* states them, independent of the definitions above.
SpecTriggerSet == {"opened", "edited", "synchronize", "reopened"}

SpecQualifying(p) == p.hasPR /\ p.action \in SpecTriggerSet

\* a qualifying event with every field of PullRequestEvent but maybe the diff locator
SpecComplete(p) ==
    SpecQualifying(p) /\ p.pr.isObject /\ {"title", "html_url", "base", "head"} \subseteq p.pr.has

SpecMessage(r, s) ==
    <<"**Pull Request**: ", PrValue(r, "title"), "\n",
      "**Link**: ", PrValue(r, "html_url"), "\n",
      "**Branches**: ", PrValue(r, "base"), " <- ", PrValue(r, "head"), "\n\n",
      "**Resumo das Mudanças**:\n">> \o s

IsBlank(t) == \A i \in DOMAIN t : t[i] \in {" ", "\n", "\t"}

IsPrefix(a, b) == Len(a) <= Len(b) /\ a = SubSeq(b, 1, Len(a))

Received(r) == pc[r] # "idle"

QueuedTasks(r) == {i \in DOMAIN loopTasks : loopTasks[i].req = r}

\* publish calls made for r so far: tasks created, whether run yet or not
PublishCalls(r) == Cardinality(QueuedTasks(r)) + taskRuns[r]

\* every publish call of r, pending or delivered, carries message m for the configured channel
CarriesOnly(r, m) ==
    /\ \A i \in QueuedTasks(r) :
        loopTasks[i].channel_id = channelId /\ loopTasks[i].message = m
    /\ \A i \in DOMAIN sent[r] :
        sent[r][i].channel_id = channelId /\ sent[r][i].message = m

\* C1: a payload without "pull_request", or with an action outside
\* {opened, edited, synchronize, reopened}, is answered 200 with no diff
\* fetch, no summarization call and no publish task.
C1_NonQualifyingNoDownstream ==
    \A r \in Reqs :
        Received(r) /\ ~SpecQualifying(payload[r]) =>
            /\ pc[r] = "done" /\ status[r] = 200
            /\ httpCalls[r] = 0 /\ openaiCalls[r] = 0
            /\ PublishCalls(r) = 0 /\ steps[r] = <<>>

C1_Witness ==
    \E r, q \in Reqs :
        /\ pc[r] = "done" /\ payload[r].hasPR /\ payload[r].action = "closed"
        /\ payload[r].pr.has = Fields /\ status[r] = 200
        /\ pc[q] = "done" /\ ~payload[q].hasPR /\ payload[q].action = "opened"

C3_Case(r) ==
    /\ SpecComplete(payload[r]) /\ "diff_url" \in payload[r].pr.has
    /\ fetchStatus[r] = "200" /\ ~IsBlank(diff[r]) /\ apiResult[r] = "ok"
    /\ status[r] = 200

C3_ExactlyOnePublish ==
    \A r \in Reqs :
        C3_Case(r) =>
            /\ PublishCalls(r) = 1
            /\ taskRuns[r] <= 1
            /\ CarriesOnly(r, SpecMessage(r, summary[r]))

\* C3: for a qualifying event with a nonempty diff and summary S the
\* publisher gets exactly one publish call, with the configured channel id and
\* the message built from title, URL, branches and S in template order; while
\* the connection is Ready that call eventually runs on the event loop (or the
\* process exits).
C3_EndToEnd ==
    /\ []C3_ExactlyOnePublish
    /\ \A r \in Reqs :
        (conn = "Ready" /\ C3_Case(r) /\ QueuedTasks(r) # {}) ~> (taskRuns[r] = 1 \/ exited)

C3_Witness ==
    \E r \in Reqs :
        /\ C3_Case(r) /\ arrivedReady[r] /\ summary[r] = <<"x">>
        /\ taskRuns[r] = 1 /\ taskResult[r] = "sent"
        /\ sent[r] = <<[channel_id |-> "valid", message |-> SpecMessage(r, <<"x">>)]>>

\* C4 as stated: every valid body is answered 200; a trigger-action payload
\* with a missing field (or a pull_request that is no object) ends as a skip
\* or a fallback string, never as an error response.
C4_MalformedInputStillOk ==
    \A r \in Reqs :
        pc[r] = "done" /\ fetchStatus[r] # "raised" => status[r] = 200

\* C5 as stated: however the diff fetch, the summarization call or the chat
\* send fails, the handler completes with the success response.
C5_TransportFailureNeverRaised ==
    \A r \in Reqs :
        /\ pc[r] = "done"
        /\ \/ fetchStatus[r] \in {"non200", "raised"}
           \/ apiResult[r] \in {"raised", "malformed"}
           \/ taskResult[r] \in {"senderror", "notfound", "valueerror"}
        => status[r] = 200

\* C6: on a non-200 diff response the fetch result is the empty string, the
\* summarizer returns the "no content" sentinel without a summarization
\* request, and the notification is still published carrying that sentinel.
C6_Non200GivesNoContent ==
    \A r \in Reqs :
        fetchStatus[r] = "non200" =>
            /\ diff[r] = <<>>
            /\ openaiCalls[r] = 0
            /\ pc[r] \in {"format", "schedule", "done"} =>
                  summary[r] = <<"Não há conteúdo para análise ou o diff está vazio.">>
            /\ pc[r] = "done" =>
                  /\ status[r] = 200
                  /\ PublishCalls(r) = 1
                  /\ CarriesOnly(r, SpecMessage(r,
                        <<"Não há conteúdo para análise ou o diff está vazio.">>))

C6_Witness ==
    \E r \in Reqs :
        /\ fetchStatus[r] = "non200" /\ pc[r] = "done"
        /\ taskResult[r] = "sent" /\ Len(sent[r]) = 1

Summarized(r) == \E i \in DOMAIN steps[r] : steps[r][i] = "summarize"

\* C7: for an empty or whitespace-only diff the summarizer returns exactly the
\* "no content" sentinel and makes no summarization call; for a diff with a
\* non-whitespace character it makes exactly one.
C7_BlankDiffNoCall ==
    \A r \in Reqs :
        Summarized(r) =>
            IF IsBlank(diff[r])
            THEN /\ summary[r] = <<"Não há conteúdo para análise ou o diff está vazio.">>
                 /\ openaiCalls[r] = 0
            ELSE openaiCalls[r] = 1

C7_Witness ==
    \E r, q \in Reqs :
        /\ Summarized(r) /\ fetchStatus[r] = "200" /\ diff[r] = <<" ">> /\ openaiCalls[r] = 0
        /\ Summarized(q) /\ diff[q] = <<"x">> /\ openaiCalls[q] = 1

\* C8: when the summarization call raises or its response lacks the first
\* choice's content, the summarizer returns "Falha ao chamar a OpenAI.",
\* nothing propagates, and the message carrying that sentinel is published.
C8_ApiFailureGivesSentinel ==
    \A r \in Reqs :
        apiResult[r] \in {"raised", "malformed"} =>
            /\ summary[r] = <<"Falha ao chamar a OpenAI.">>
            /\ status[r] # 500
            /\ pc[r] \in {"format", "schedule", "done"}
            /\ pc[r] = "done" =>
                  /\ status[r] = 200
                  /\ PublishCalls(r) = 1
                  /\ CarriesOnly(r, SpecMessage(r, <<"Falha ao chamar a OpenAI.">>))

C8_Witness ==
    \E r, q \in Reqs :
        /\ apiResult[r] = "malformed" /\ pc[r] = "done" /\ taskResult[r] = "sent"
        /\ apiResult[q] = "raised" /\ pc[q] = "done" /\ PublishCalls(q) = 1

C10_SequentialPerEvent ==
    \A r \in Reqs :
        /\ \/ IsPrefix(steps[r], <<"fetch", "summarize", "format", "publish">>)
           \/ IsPrefix(steps[r], <<"format", "publish">>)
        /\ openaiCalls[r] > 0 => fetchStatus[r] = "200"
        /\ message[r] # <<>> => message[r] = SpecMessage(r, summary[r])
        /\ PublishCalls(r) > 0 => message[r] # <<>> /\ CarriesOnly(r, message[r])

C10_Witness ==
    \E r, q \in Reqs :
        /\ r < q
        /\ steps[r] = <<"fetch", "summarize", "format", "publish">>
        /\ steps[q] = <<"fetch", "summarize", "format", "publish">>
        /\ summary[r] # summary[q]
        /\ Len(loopTasks) = 2 /\ loopTasks[1].req = q /\ loopTasks[2].req = r

====
